---- MODULE Spec2Model ----
(***************************************************************************)
(* A model of techiaith.utils.bitext: the extraction of sentence pairs     *)
(* from TMX and CSV/TSV files (to_bitext and the functions it drives).     *)
(*                                                                         *)
(* A text is a sequence of characters; a character is a one-element string *)
(* or the name of a character that has no printable form (LF, CR, TAB,     *)
(* NBSP, EACUTE, COMBACUTE).                                               *)
(***************************************************************************)
EXTENDS Integers, Sequences, FiniteSets, TLC

VARIABLES
    ext,            \* to_bitext: extension of `path`
    source_langs,   \* to_bitext: the expected LanguagePair, or None
    units,          \* the items of the file: TMX units or CSV rows, in file order
    header,         \* CSV: the first row of the file (csv.DictReader fieldnames)
    kw_fieldnames,  \* to_bitext: the `fieldnames` keyword, or absent
    pos,            \* index of the next item the reader will take
    out,            \* what the generator has yielded so far
    status,         \* position of the generator / of the function under study
    error,          \* the exception that ended the generator, or None
    sentence,       \* process_sentence: its argument
    processed,      \* process_sentence: its result
    side,           \* getNodeText: the language node (tuv) it is applied to
    extracted,      \* getNodeText: its result
    emitted         \* the Sentence to_bitext emits for `side`

fileVars == <<ext, source_langs, units, header, kw_fieldnames, pos, out, error>>
processVars == <<sentence, processed>>
extractVars == <<side, extracted, emitted>>

vars == <<fileVars, status, processVars, extractVars>>

None == "None"

\* ------------------------------------------------------------------------
\* bounds
MaxLen == 4        \* longest text given to process_sentence
MaxNodes == 3      \* most child nodes of a <seg>
MaxUnits == 3      \* most units (rows) of a file

\* ------------------------------------------------------------------------
\* characters
SP == " "
LF == "LF"
CR == "CR"
TAB == "TAB"
NBSP == "NBSP"            \* U+00A0
EACUTE == "EACUTE"        \* U+00E9
COMBACUTE == "COMBACUTE"  \* U+0301

\* ------------------------------------------------------------------------
\* str methods

RECURSIVE Concat(_)
Concat(ss) == IF ss = <<>> THEN <<>> ELSE Head(ss) \o Concat(Tail(ss))

\* sep.join(ss)
RECURSIVE str_join(_, _)
str_join(sep, ss) ==
    IF ss = <<>> THEN <<>>
    ELSE IF Len(ss) = 1 THEN Head(ss)
    ELSE Head(ss) \o sep \o str_join(sep, Tail(ss))

\* text.split(c): the pieces between the occurrences of c, empty ones included
RECURSIVE str_split(_, _)
str_split(text, c) ==
    IF \A i \in 1..Len(text) : text[i] # c THEN <<text>>
    ELSE LET i == CHOOSE k \in 1..Len(text) :
                      text[k] = c /\ \A m \in 1..(k - 1) : text[m] # c
         IN  <<SubSeq(text, 1, i - 1)>> \o str_split(SubSeq(text, i + 1, Len(text)), c)

\* text.replace(old, new): left to right, non-overlapping
RECURSIVE str_replace(_, _, _)
str_replace(text, old, new) ==
    IF Len(text) < Len(old) THEN text
    ELSE IF SubSeq(text, 1, Len(old)) = old
         THEN new \o str_replace(SubSeq(text, Len(old) + 1, Len(text)), old, new)
         ELSE <<Head(text)>> \o str_replace(Tail(text), old, new)

\* ch.isspace()
isspace(ch) == ch \in {SP, LF, CR, TAB, NBSP}

\* text.strip()
RECURSIVE str_lstrip(_)
str_lstrip(text) ==
    IF text # <<>> /\ isspace(Head(text)) THEN str_lstrip(Tail(text)) ELSE text

RECURSIVE str_rstrip(_)
str_rstrip(text) ==
    IF text # <<>> /\ isspace(text[Len(text)])
    THEN str_rstrip(SubSeq(text, 1, Len(text) - 1)) ELSE text

str_strip(text) == str_rstrip(str_lstrip(text))

\* pat in text
str_in(pat, text) ==
    \E i \in 1..(Len(text) - Len(pat) + 1) : SubSeq(text, i, i + Len(pat) - 1) = pat

\* ch.lower()
lower_char(ch) ==
    CASE ch = "E" -> "e" [] ch = "N" -> "n" [] ch = "C" -> "c" [] ch = "Y" -> "y"
      [] ch = "G" -> "g" [] ch = "B" -> "b" [] ch = "D" -> "d" [] OTHER -> ch

str_lower(text) == [i \in 1..Len(text) |-> lower_char(text[i])]

\* ------------------------------------------------------------------------
\* normalize

\* unicodedata.category(ch)[0]
category(ch) ==
    CASE ch \in {LF, CR, TAB} -> "C"
      [] ch \in {SP, NBSP} -> "Z"
      [] ch = COMBACUTE -> "M"
      [] ch \in {"{", "}"} -> "P"
      [] ch \in {"<", ">"} -> "S"
      [] OTHER -> "L"

\* ch in string.printable
printable(ch) == ch \notin {NBSP, EACUTE, COMBACUTE}

\* unicodedata.normalize('NFKD', text)
NFKD(text) ==
    Concat([i \in 1..Len(text) |->
               CASE text[i] = EACUTE -> <<"e", COMBACUTE>>
                 [] text[i] = NBSP -> <<SP>>
                 [] OTHER -> <<text[i]>>])

remove_control_characters(s) == SelectSeq(s, LAMBDA ch : category(ch) # "C")

RECURSIVE squeeze_spaces(_)
squeeze_spaces(text) ==
    IF Len(text) < 2 THEN text
    ELSE IF text[1] = SP /\ text[2] = SP THEN squeeze_spaces(Tail(text))
    ELSE <<Head(text)>> \o squeeze_spaces(Tail(text))

\* sm.MosesPunctNormalizer(lang).normalize(text), on the characters above:
\* carriage returns dropped, runs of spaces squeezed, the ends stripped
MosesPunctNormalizer(text) ==
    str_strip(squeeze_spaces(SelectSeq(text, LAMBDA ch : ch # CR)))

normalize(text, lang) ==
    LET t1 == NFKD(text)
        t2 == remove_control_characters(t1)
        t3 == MosesPunctNormalizer(t2)
        words == str_split(t3, SP)
    IN  str_join(<<SP>>, [i \in 1..Len(words) |-> SelectSeq(words[i], printable)])

\* ------------------------------------------------------------------------
\* process_sentence

Sentence(text, lang) == [text |-> text, lang |-> lang]

\* dict(_replacements).items(): insertion order
_replacements ==
    << <<(<<CR, LF>>), (<<LF>>)>>,
       <<(<<LF>>), (<<SP>>)>>,
       <<(<<TAB>>), (<<SP, SP, SP, SP>>)>> >>

RECURSIVE apply_replacements(_, _)
apply_replacements(text, reps) ==
    IF reps = <<>> THEN text
    ELSE apply_replacements(str_replace(text, Head(reps)[1], Head(reps)[2]), Tail(reps))

\* a plausible slip: new-lines replaced before CRLF is collapsed
process_sentence_lf_first(s) ==
    Sentence(str_strip(apply_replacements(s.text,
                 <<_replacements[2], _replacements[1], _replacements[3]>>)), s.lang)

process_sentence(s) ==
    Sentence(str_strip(apply_replacements(s.text, _replacements)), s.lang)

\* ------------------------------------------------------------------------
\* the TMX extractor (tmxunitl2.getNodeText)

\* An absent value (Python's None) where a text or a node is expected is the
\* empty tuple, a present value v the one-element tuple <<v>>.
Absent == <<>>
Present(v) == <<v>>

\* A <seg> is the sequence of its child nodes in document order: text nodes
\* and inline-code elements (bpt, ept, ph) with the text they hold.
TextNode(t) == [kind |-> "text", text |-> t]
CodeNode(t) == [kind |-> "code", text |-> t]

\* A <tuv>: the value of its first attribute and its <seg> children.
Tuv(lang, segs) == [lang |-> lang, segs |-> segs]

\* text_xpath = etree.XPath('text()'): the text nodes that are children of node
text_xpath(node) ==
    LET ts == SelectSeq(node, LAMBDA n : n.kind = "text")
    IN  [i \in 1..Len(ts) |-> ts[i].text]

\* XPath string(): all descendant text, in document order
string_xpath(node) == Concat([i \in 1..Len(node) |-> node[i].text])

\* super().getNodeText(lang_node, xml_space): the text of the first <seg>
tmxunit_getNodeText(lang_node) ==
    IF lang_node.segs = <<>> THEN Absent
    ELSE Present(string_xpath(lang_node.segs[1]))

\* a plausible slip: the two separators the wrong way round
getNodeText_sep_swapped(lang_node) ==
    LET xml_text == tmxunit_getNodeText(lang_node)
    IN  IF xml_text # Absent /\ (str_in(<<"{">>, xml_text[1]) \/ str_in(<<"}">>, xml_text[1]))
        THEN IF lang_node.segs # <<>>
             THEN LET sep == IF str_in(<<"{", "j">>, xml_text[1]) THEN <<>> ELSE <<SP>>
                  IN  Present(str_join(sep, text_xpath(lang_node.segs[1])))
             ELSE Absent
        ELSE xml_text

\* a plausible slip: no level-2 handling, the parent's text is returned as is
getNodeText_level1(lang_node) == tmxunit_getNodeText(lang_node)

\* a plausible slip: the separator joins the characters of the node's text
\* (sep.join(node.text)) instead of its text fragments
getNodeText_join_chars(lang_node) ==
    LET xml_text == tmxunit_getNodeText(lang_node)
    IN  IF xml_text # Absent /\ (str_in(<<"{">>, xml_text[1]) \/ str_in(<<"}">>, xml_text[1]))
        THEN IF lang_node.segs # <<>>
             THEN LET sep == IF str_in(<<"{", "j">>, xml_text[1]) THEN <<SP>> ELSE <<>>
                      frags == text_xpath(lang_node.segs[1])
                      first == IF frags = <<>> THEN <<>> ELSE frags[1]
                  IN  Present(str_join(sep, [i \in 1..Len(first) |-> <<first[i]>>]))
             ELSE Absent
        ELSE xml_text

getNodeText(lang_node) ==
    LET xml_text == tmxunit_getNodeText(lang_node)
    IN  IF xml_text # Absent /\ (str_in(<<"{">>, xml_text[1]) \/ str_in(<<"}">>, xml_text[1]))
        THEN IF lang_node.segs # <<>>
             THEN LET sep == IF str_in(<<"{", "j">>, xml_text[1]) THEN <<SP>> ELSE <<>>
                  IN  Present(str_join(sep, text_xpath(lang_node.segs[1])))
             ELSE Absent
        ELSE xml_text

\* ------------------------------------------------------------------------
\* values the files are built from

en == <<"e", "n">>
cy == <<"c", "y">>
de == <<"d", "e">>

ProcessChars == {"a", SP, LF, CR, TAB}

TextsUpTo(chars, n) == UNION {[1..k -> chars] : k \in 0..n}

FragmentTexts ==
    { <<"x">>, <<"y">>, <<"x", SP>>, <<SP, "y">>, <<LF, SP>>, <<LF, SP, "y">>,
      <<"{", "x">>, <<"y", "}">>, <<"{", "j">> }

BoldOpen == <<"{", "b", ">">>
BoldClose == <<"<", "b", "}">>
Join == <<"{", "j", "}">>

CodeTexts == {BoldOpen, BoldClose, Join, <<"<", "b", ">">>}

SegNodes == {TextNode(t) : t \in FragmentTexts} \cup {CodeNode(t) : t \in CodeTexts}

\* the parser merges adjacent text: no <seg> has two text nodes in a row
Segs ==
    {s \in UNION {[1..k -> SegNodes] : k \in 0..MaxNodes} :
        \A i \in 1..(Len(s) - 1) : ~(s[i].kind = "text" /\ s[i + 1].kind = "text")}

Sides == {Tuv(en, <<>>)} \cup {Tuv(en, <<s>>) : s \in Segs}

\* ------------------------------------------------------------------------
\* process_sentence on its own

IdleFile ==
    /\ ext = None /\ source_langs = <<>> /\ units = <<>> /\ header = <<>>
    /\ kw_fieldnames = <<>>
    /\ pos = 0 /\ out = <<>> /\ error = None

IdleProcess == sentence = Sentence(<<>>, en) /\ processed = Sentence(<<>>, en)

IdleExtract == side = Tuv(en, <<>>) /\ extracted = Absent /\ emitted = Absent

InitProcess ==
    /\ IdleFile /\ IdleExtract
    /\ status = "sentence"
    /\ sentence \in {Sentence(t, l) : t \in TextsUpTo(ProcessChars, MaxLen), l \in {en, cy}}
    /\ processed = Sentence(<<>>, en)

ProcessSentence ==
    /\ status = "sentence"
    /\ processed' = process_sentence(sentence)
    /\ status' = "processed"
    /\ UNCHANGED <<fileVars, sentence, extractVars>>

NextProcess == ProcessSentence

SpecProcess == InitProcess /\ [][NextProcess]_vars

\* ------------------------------------------------------------------------
\* one side of a unit through the extractor and then through to_bitext's
\* normalisation (sentences_from_lang_data) and post-processing

InitExtract ==
    /\ IdleFile /\ IdleProcess
    /\ status = "node"
    /\ side \in Sides
    /\ extracted = Absent
    /\ emitted = Absent

GetNodeText ==
    /\ status = "node"
    /\ extracted' = getNodeText(side)
    /\ status' = "extracted"
    /\ UNCHANGED <<fileVars, processVars, side, emitted>>

\* sentences_from_lang_data on the side's text, then process_sentence
EmitSide ==
    /\ status = "extracted"
    /\ emitted' = IF extracted = Absent THEN Absent
                  ELSE Present(process_sentence(
                           Sentence(normalize(extracted[1], str_lower(side.lang)),
                                    str_lower(side.lang))))
    /\ status' = "emitted"
    /\ UNCHANGED <<fileVars, processVars, side, extracted>>

NextExtract == GetNodeText \/ EmitSide

SpecExtract == InitExtract /\ [][NextExtract]_vars

\* ------------------------------------------------------------------------
\* sentences from a record, from a TMX unit, from a CSV row

Range(f) == {f[i] : i \in DOMAIN f}

Min(a, b) == IF a < b THEN a ELSE b

\* what a function of the program returns: a tuple, None, or an exception
Returned(v) == [kind |-> "tuple", val |-> v, error |-> None]
ReturnedNone == [kind |-> "None", val |-> <<>>, error |-> None]
Raised(e) == [kind |-> "raise", val |-> <<>>, error |-> e]

\* a plausible slip: an empty text is dropped like an absent one (`if text:`)
sentences_from_lang_data_skip_empty(data, langs, fieldnames) ==
    LET keys == IF fieldnames # <<>> THEN fieldnames ELSE <<langs[1], langs[2]>>
        n == Min(Len(langs), Len(keys))
        one(i) == IF data[keys[i]] # Absent /\ data[keys[i]][1] # <<>>
                  THEN <<Sentence(normalize(data[keys[i]][1], langs[i]), langs[i])>>
                  ELSE <<>>
    IN  IF \E i \in 1..n : keys[i] \notin DOMAIN data
        THEN Raised("KeyError")
        ELSE Returned(Concat([i \in 1..n |-> one(i)]))

\* `data` maps a key to its text, present or absent (None)
sentences_from_lang_data(data, langs, fieldnames) ==
    LET keys == IF fieldnames # <<>> THEN fieldnames ELSE <<langs[1], langs[2]>>
        n == Min(Len(langs), Len(keys))
        one(i) == IF data[keys[i]] # Absent
                  THEN <<Sentence(normalize(data[keys[i]][1], langs[i]), langs[i])>>
                  ELSE <<>>
    IN  IF \E i \in 1..n : keys[i] \notin DOMAIN data
        THEN Raised("KeyError")
        ELSE Returned(Concat([i \in 1..n |-> one(i)]))

\* lang_val.split('-')[0].lower()
primary_lang(lang_val) == str_lower(str_split(lang_val, "-")[1])

\* the languages sentences_from_tmx_node reads from a unit with two sides
observed_langs(node) == <<primary_lang(node[1].lang), primary_lang(node[2].lang)>>

\* a plausible slip: a unit in the wrong order is skipped instead of raising
sentences_from_tmx_node_skip(node, expected) ==
    IF Len(node) < 2 THEN ReturnedNone
    ELSE LET langs == observed_langs(node)
             nm == [l \in {langs[1], langs[2]} |->
                       IF l = langs[2] THEN getNodeText(node[2]) ELSE getNodeText(node[1])]
         IN  IF expected # langs THEN ReturnedNone
             ELSE IF Cardinality(DOMAIN nm) = 2
                  THEN sentences_from_lang_data(nm, langs, <<>>)
                  ELSE ReturnedNone

\* a TMX unit `node` is the sequence of its <tuv> children: source_dom is
\* the first, target_dom the second, either may be missing
sentences_from_tmx_node(node, expected) ==
    IF Len(node) < 2 THEN ReturnedNone
    ELSE LET langs == observed_langs(node)
             nm == [l \in {langs[1], langs[2]} |->
                       IF l = langs[2] THEN getNodeText(node[2]) ELSE getNodeText(node[1])]
         IN  IF expected # langs THEN Raised("ValueError")
             ELSE IF Cardinality(DOMAIN nm) = 2
                  THEN LET r == sentences_from_lang_data(nm, langs, <<>>)
                       IN  IF r.kind = "raise" THEN Raised("ValueError") ELSE r
                  ELSE ReturnedNone

\* csv.DictReader: the row as a dict keyed by the header; a field the row
\* does not reach is None, fields beyond the header are not under any name
DictRow(fieldnames, row) ==
    [k \in Range(fieldnames) |->
        LET i == CHOOSE j \in 1..Len(fieldnames) :
                     fieldnames[j] = k /\ \A m \in (j + 1)..Len(fieldnames) : fieldnames[m] # k
        IN  IF i <= Len(row) THEN Present(row[i]) ELSE Absent]

\* tuple(map(process_sentence, sentences))
process_all(sentences) == [i \in 1..Len(sentences) |-> process_sentence(sentences[i])]

_readers == {"csv", "tsv", "tmx"}

\* ------------------------------------------------------------------------
\* the files

enGB == <<"e", "n", "-", "G", "B">>
EN == <<"E", "N">>
CY == <<"C", "Y">>

PlainX == <<TextNode(<<"x">>)>>
PlainY == <<TextNode(<<"y">>)>>
BoldY == <<CodeNode(BoldOpen), TextNode(<<"y">>), CodeNode(BoldClose)>>
JoinedXY == <<TextNode(<<"x">>), CodeNode(Join), TextNode(<<"y">>)>>
LinesText == <<"x", LF, "y", TAB, "x">>

TmxUnits ==
    { <<Tuv(en, <<PlainX>>), Tuv(cy, <<PlainY>>)>>,
      <<Tuv(enGB, <<JoinedXY>>), Tuv(CY, <<BoldY>>)>>,
      <<Tuv(cy, <<PlainY>>), Tuv(en, <<PlainX>>)>>,
      <<Tuv(en, <<PlainX>>), Tuv(de, <<PlainY>>)>>,
      <<Tuv(en, <<PlainX>>), Tuv(cy, <<>>)>>,
      <<Tuv(en, <<PlainX>>)>>,
      <<Tuv(en, << <<TextNode(LinesText)>> >>), Tuv(cy, <<PlainY>>)>>,
      <<Tuv(en, <<PlainX>>), Tuv(en, <<PlainX>>)>>,
      <<Tuv(en, << <<>> >>), Tuv(cy, <<PlainY>>)>> }

\* the expected pair: None, or two different languages (a bitext is a pair of
\* texts in two different languages)
TmxSourceLangs == {<<>>, <<en, cy>>, <<EN, CY>>, <<cy, en>>}

CsvRows ==
    { <<(<<"x">>), (<<"y">>)>>,
      <<(<<"x">>), (<<>>)>>,
      <<(<<>>), (<<"y">>)>>,
      <<(<<"x">>)>>,
      <<>>,
      <<LinesText, (<<"y">>)>>,
      <<(<<"x">>), (<<"y">>), (<<"x">>)>> }

CsvHeaders == {<<en, cy>>, <<cy, en>>, <<en, de>>}

CsvSourceLangs == {<<>>, <<en, cy>>}

CsvFieldnames == {Absent, <<cy, en>>}

FilesOf(items) == UNION {[1..k -> items] : k \in 0..MaxUnits}

\* ------------------------------------------------------------------------
\* to_bitext

Init ==
    /\ IdleProcess /\ IdleExtract
    /\ status = "created"
    /\ pos = 1 /\ out = <<>> /\ error = None
    /\ ext \in {"tmx", "csv", "tsv", "txt"}
    /\ \/ /\ ext = "tmx"
          /\ units \in FilesOf(TmxUnits)
          /\ source_langs \in TmxSourceLangs
          /\ header = <<>> /\ kw_fieldnames = Absent
       \/ /\ ext \in {"csv", "tsv"}
          /\ units \in FilesOf(CsvRows)
          /\ source_langs \in CsvSourceLangs
          /\ header \in CsvHeaders
          /\ kw_fieldnames \in CsvFieldnames
       \/ /\ ext = "txt"
          /\ units = <<>> /\ source_langs \in CsvSourceLangs
          /\ header = <<>> /\ kw_fieldnames = Absent

\* to_bitext up to the reader's loop: the reader is looked up by extension;
\* bitext_from_csv builds LanguagePair(*source_langs) before it opens the file
Start ==
    /\ status = "created"
    /\ IF ext \notin _readers
       THEN status' = "raised" /\ error' = "NotImplementedError"
       ELSE IF ext \in {"csv", "tsv"} /\ source_langs = <<>>
            THEN status' = "raised" /\ error' = "TypeError"
            ELSE status' = "reading" /\ error' = error
    /\ UNCHANGED <<ext, source_langs, units, header, kw_fieldnames, pos, out,
                   processVars, extractVars>>

\* bitext_from_tmx, one unit: the pair is yielded, the unit is skipped, or
\* the error ends the generator
TmxUnit ==
    /\ status = "reading" /\ ext = "tmx" /\ pos <= Len(units)
    /\ LET r == sentences_from_tmx_node(units[pos], source_langs)
       IN  CASE r.kind = "raise" ->
                    /\ status' = "raised" /\ error' = r.error
                    /\ UNCHANGED <<pos, out>>
             [] r.kind = "None" ->
                    /\ pos' = pos + 1
                    /\ UNCHANGED <<status, error, out>>
             [] OTHER ->
                    /\ out' = Append(out, [item |-> pos, pair |-> process_all(r.val)])
                    /\ pos' = pos + 1
                    /\ UNCHANGED <<status, error>>
    /\ UNCHANGED <<ext, source_langs, units, header, kw_fieldnames,
                   processVars, extractVars>>

\* bitext_from_csv, one row (csv.DictReader passes over a blank line)
CsvRow ==
    /\ status = "reading" /\ ext \in {"csv", "tsv"} /\ pos <= Len(units)
    /\ IF units[pos] = <<>>
       THEN pos' = pos + 1 /\ UNCHANGED <<status, error, out>>
       ELSE LET fieldnames == IF kw_fieldnames = Absent
                              THEN <<source_langs[1], source_langs[2]>>
                              ELSE kw_fieldnames
                r == sentences_from_lang_data(DictRow(header, units[pos]),
                                              source_langs, fieldnames)
            IN  IF r.kind = "raise"
                THEN /\ status' = "raised" /\ error' = r.error
                     /\ UNCHANGED <<pos, out>>
                ELSE /\ out' = Append(out, [item |-> pos, pair |-> process_all(r.val)])
                     /\ pos' = pos + 1
                     /\ UNCHANGED <<status, error>>
    /\ UNCHANGED <<ext, source_langs, units, header, kw_fieldnames,
                   processVars, extractVars>>

\* the reader has no more items: the generator returns
Exhausted ==
    /\ status = "reading" /\ pos > Len(units)
    /\ status' = "exhausted"
    /\ UNCHANGED <<fileVars, processVars, extractVars>>

Next == Start \/ TmxUnit \/ CsvRow \/ Exhausted

Spec == Init /\ [][Next]_vars

\* ------------------------------------------------------------------------
\* vocabulary of the properties

HasBrace(text) == str_in(<<"{">>, text) \/ str_in(<<"}">>, text)

HasJoinMarker(text) == str_in(<<"{", "j">>, text)

NoWhitespace(text) == SelectSeq(text, LAMBDA ch : ~isspace(ch))

\* the maximal runs of non-whitespace characters of a text, in order
RECURSIVE WordsOf(_)
WordsOf(text) ==
    LET t == str_lstrip(text)
    IN  IF t = <<>> THEN <<>>
        ELSE LET n == CHOOSE k \in 1..Len(t) :
                          /\ \A i \in 1..k : ~isspace(t[i])
                          /\ (k = Len(t) \/ isspace(t[k + 1]))
             IN  <<SubSeq(t, 1, n)>> \o WordsOf(SubSeq(t, n + 1, Len(t)))

RECURSIVE WordsOfAll(_)
WordsOfAll(texts) ==
    IF texts = <<>> THEN <<>> ELSE WordsOf(Head(texts)) \o WordsOfAll(Tail(texts))

\* CRLF, LF and TAB replaced in one pass from left to right
RECURSIVE OnePass(_)
OnePass(t) ==
    IF t = <<>> THEN <<>>
    ELSE IF Len(t) >= 2 /\ t[1] = CR /\ t[2] = LF
         THEN <<SP>> \o OnePass(SubSeq(t, 3, Len(t)))
    ELSE IF t[1] = LF THEN <<SP>> \o OnePass(Tail(t))
    ELSE IF t[1] = TAB THEN <<SP, SP, SP, SP>> \o OnePass(Tail(t))
    ELSE <<t[1]>> \o OnePass(Tail(t))

\* ------------------------------------------------------------------------
\* C10: process_sentence replaces CRLF by one space, LF by one space and TAB
\* by four spaces, then trims: its result is the one-pass replacement of the
\* input, trimmed; it holds no LF and no TAB, neither starts nor ends with
\* whitespace, and keeps the sentence's lang.
C10_ProcessSentence ==
    status = "processed" =>
        /\ processed.text = str_strip(OnePass(sentence.text))
        /\ \A i \in 1..Len(processed.text) : processed.text[i] \notin {LF, TAB}
        /\ processed.text # <<>> =>
              /\ ~isspace(processed.text[1])
              /\ ~isspace(processed.text[Len(processed.text)])
        /\ processed.lang = sentence.lang

C10_Witness ==
    /\ status = "processed"
    /\ sentence.text = <<"a", CR, LF, "a">>
    /\ processed.text = <<"a", SP, "a">>

\* ------------------------------------------------------------------------
\* C3 as stated: when the text retrieved directly holds a brace, the
\* fragments of the first <seg> are joined by the empty string if the join
\* marker is in that text, and by one space otherwise.
C3_AsStated ==
    (status = "extracted" /\ side.segs # <<>> /\ HasBrace(string_xpath(side.segs[1]))) =>
        LET frags == text_xpath(side.segs[1])
            gaps == IF Len(frags) > 1 THEN Len(frags) - 1 ELSE 0
        IN  /\ extracted # Absent
            /\ Len(extracted[1]) = Len(Concat(frags))
                  + (IF HasJoinMarker(string_xpath(side.segs[1])) THEN 0 ELSE gaps)

\* C3 amended: when the text retrieved directly holds a brace, the fragments
\* of the first <seg> are joined by one space if the join marker ('{j') is
\* in that text, and by the empty string otherwise.
C3_Separator ==
    (status = "extracted" /\ side.segs # <<>> /\ HasBrace(string_xpath(side.segs[1]))) =>
        LET frags == text_xpath(side.segs[1])
            gaps == IF Len(frags) > 1 THEN Len(frags) - 1 ELSE 0
            joined == HasJoinMarker(string_xpath(side.segs[1]))
        IN  /\ extracted # Absent
            /\ Len(extracted[1]) = Len(Concat(frags)) + (IF joined THEN gaps ELSE 0)
            /\ joined =>
                  \A i \in 1..gaps :
                      extracted[1][Len(Concat(SubSeq(frags, 1, i))) + i] = SP
            /\ ~joined => extracted[1] = Concat(frags)

C3_Witness ==
    /\ status = "extracted"
    /\ side.segs = << <<TextNode(<<"x">>), CodeNode(Join), TextNode(<<"y">>)>> >>
    /\ extracted = Present(<<"x", SP, "y">>)

\* ------------------------------------------------------------------------
\* C4: a side whose <seg> holds inline codes whose text is a brace marker is
\* emitted without any marker text and with each of its own text fragments
\* once, in document order; with no join placeholder nothing is inserted
\* between the fragments, with one the fragments are one space apart.
BraceCoded(tuv) ==
    /\ tuv.segs # <<>>
    /\ \E i \in 1..Len(tuv.segs[1]) : tuv.segs[1][i].kind = "code"
    /\ \A i \in 1..Len(tuv.segs[1]) :
          LET n == tuv.segs[1][i]
          IN  IF n.kind = "code" THEN HasBrace(n.text) ELSE ~HasBrace(n.text)

C5_Level1Compatible ==
    (status \in {"extracted", "emitted"}
       /\ \A k \in 1..Len(side.segs) :
             \A i \in 1..Len(side.segs[k]) : side.segs[k][i].kind = "text") =>
        extracted = tmxunit_getNodeText(side)

C5_Witness ==
    /\ status = "extracted"
    /\ side.segs = << <<TextNode(<<"{", "j">>)>> >>
    /\ extracted = Present(<<"{", "j">>)

\* ------------------------------------------------------------------------
\* vocabulary of the properties about files

IsTmx == ext = "tmx"
IsCsv == ext \in {"csv", "tsv"}

\* unit i has two sides whose languages are not the expected pair, in order
\* (always so when no expected pair was given)
Mismatched(i) == Len(units[i]) >= 2 /\ observed_langs(units[i]) # source_langs

\* unit i has two sides of different languages, each with a <seg>
WellFormed(i) ==
    /\ Len(units[i]) >= 2
    /\ observed_langs(units[i])[1] # observed_langs(units[i])[2]
    /\ units[i][1].segs # <<>> /\ units[i][2].segs # <<>>

Yielded(i) == \E k \in 1..Len(out) : out[k].item = i

\* ------------------------------------------------------------------------
\* C1: at a TMX unit whose languages are reversed or differ from the expected
\* pair, or when no pair was given, to_bitext raises ValueError: the pairs of
\* the earlier units have been yielded, the offending unit yields nothing and
\* no later unit is ever read or yielded.
C1_AbortOnMismatch ==
    IsTmx =>
        /\ \A k \in 1..Len(out) : \A i \in 1..out[k].item : ~Mismatched(i)
        /\ \A i \in 1..Len(units) : Mismatched(i) => pos <= i
        /\ status = "exhausted" => \A i \in 1..Len(units) : ~Mismatched(i)
        /\ status = "raised" =>
              /\ error = "ValueError"
              /\ Mismatched(pos)
              /\ \A i \in 1..(pos - 1) : WellFormed(i) => Yielded(i)

C1_Witness ==
    /\ IsTmx /\ status = "raised" /\ error = "ValueError"
    /\ source_langs = <<en, cy>>
    /\ Len(units) = 3 /\ pos = 2 /\ Len(out) = 1

\* ------------------------------------------------------------------------
\* C2: from a TMX file in which the languages of every unit match the
\* expected pair in order, to_bitext yields one pair per unit, in file order,
\* with pair[0].lang the expected source and pair[1].lang the expected target.
C2_OnePairPerUnit ==
    (IsTmx /\ \A i \in 1..Len(units) :
                  Len(units[i]) >= 2 /\ observed_langs(units[i]) = source_langs) =>
        /\ status # "raised"
        /\ status = "exhausted" => Len(out) = Len(units)
        /\ \A k \in 1..Len(out) :
              /\ out[k].item = k
              /\ Len(out[k].pair) = 2
              /\ out[k].pair[1].lang = source_langs[1]
              /\ out[k].pair[2].lang = source_langs[2]

\* ------------------------------------------------------------------------
\* C6: the order check is case-insensitive: a unit whose languages equal the
\* expected pair after case-folding is accepted.
C6_CaseInsensitive ==
    (IsTmx /\ status = "raised" /\ error = "ValueError") =>
        ~(/\ Len(source_langs) = 2
          /\ observed_langs(units[pos]) =
                 <<str_lower(source_langs[1]), str_lower(source_langs[2])>>)

\* ------------------------------------------------------------------------
\* C7 as stated: a CSV/TSV row in which the cell of one language is empty
\* yields a tuple of length 1, holding the Sentence of the populated language.
CellOf(row, key) ==
    LET i == CHOOSE j \in 1..Len(header) : header[j] = key
    IN  IF i <= Len(row) THEN Present(row[i]) ELSE Absent

CsvKeys == IF kw_fieldnames = Absent THEN source_langs ELSE kw_fieldnames

CsvReadable ==
    IsCsv /\ source_langs # <<>> /\ \A j \in 1..2 : CsvKeys[j] \in Range(header)

C8_TwoSentences ==
    IsTmx =>
        \A k \in 1..Len(out) :
            /\ Len(out[k].pair) = 2
            /\ \A j \in 1..2 : getNodeText(units[out[k].item][j]) # Absent

\* ------------------------------------------------------------------------
\* C9: a new-line inside the text of an item appears in the emitted text as
\* one space and a tab as four spaces.
LettersAround(text) ==
    /\ text # <<>>
    /\ ~isspace(text[1]) /\ ~isspace(text[Len(text)])
    /\ \A i \in 1..Len(text) : text[i] \in {"x", "y", LF, TAB}

\* the raw text of the item behind out[k], for the j-th language
RawText(k, j) ==
    LET item == units[out[k].item]
    IN  IF IsTmx THEN tmxunit_getNodeText(item[j]) ELSE CellOf(item, CsvKeys[j])

C9_LinesAndTabsReplaced ==
    (IsTmx \/ CsvReadable) =>
        \A k \in 1..Len(out) : \A j \in 1..2 :
            (RawText(k, j) # Absent /\ LettersAround(RawText(k, j)[1])) =>
                \E m \in 1..Len(out[k].pair) :
                    /\ out[k].pair[m].lang = source_langs[j]
                    /\ out[k].pair[m].text = OnePass(RawText(k, j)[1])

====
